---- MODULE Spec2Model ----
(***************************************************************************)
(* A model of the routing Layer of koa-router (src/lib/layer.js).         *)
(*                                                                         *)
(* JavaScript strings are sequences of one-character strings, so that     *)
(* parsing, concatenation and decoding are computed character by          *)
(* character.  Parameter names, method tokens and handler identities are  *)
(* TLA+ strings.                                                           *)
(***************************************************************************)
EXTENDS Integers, Sequences, FiniteSets, TLC

VARIABLES status, path, methods, stack, paramNames, regexp, opts, nextId,
          path0, applied, ret

vars == <<status, path, methods, stack, paramNames, regexp, opts, nextId,
          path0, applied, ret>>

layer == <<path, methods, stack, paramNames, regexp, opts>>

----------------------------------------------------------------------------
(* Bounds of the model.                                                    *)

\* number of param(name, fn) calls explored on one Layer
MaxParamCalls == 3
\* number of setPrefix(prefix) calls explored on one Layer
MaxPrefixCalls == 2

----------------------------------------------------------------------------
(* JavaScript values.                                                      *)

\* a string value and a RegExp literal /src/ as values of `path`
Str(s) == [re |-> FALSE, s |-> s]
RegExpLit(src) == [re |-> TRUE, s |-> src]

\* String(v): a RegExp prints as "/" source "/" (no flags), a string as itself
ToStr(v) == IF v.re THEN <<"/">> \o v.s \o <<"/">> ELSE v.s

\* ToBoolean(v): every object is truthy, a string is truthy when non-empty
Truthy(v) == v.re \/ Len(v.s) > 0

\* a function value; `tagged` says whether it carries a `param` property
Fn(id) == [typ |-> "function", id |-> id, tagged |-> FALSE, param |-> ""]
\* a value that is not a function
NotFn(t) == [typ |-> t, id |-> "", tagged |-> FALSE, param |-> ""]

\* the `middleware` argument: an Array of values, or one value
ArrayOf(items) == [arr |-> TRUE, items |-> items]
Single(v) == [arr |-> FALSE, items |-> <<v>>]

----------------------------------------------------------------------------
(* path-to-regexp 1.x, as layer.js calls it, on templates made of         *)
(* literal characters, escapes and `:name` parameters.                     *)

WordChars == {"a", "b", "x"}

RECURSIVE WordRun(_, _)
\* the end (exclusive) of the maximal run of \w characters starting at i
WordRun(s, i) ==
  IF i <= Len(s) /\ s[i] \in WordChars THEN WordRun(s, i + 1) ELSE i

RECURSIVE JoinChars(_, _, _)
\* s[i..j-1] as one TLA+ string
JoinChars(s, i, j) == IF i >= j THEN "" ELSE s[i] \o JoinChars(s, i + 1, j)

LitTok(c) == [lit |-> TRUE, c |-> c, name |-> "", prefix |-> ""]
KeyTok(n, p) == [lit |-> FALSE, c |-> "", name |-> n, prefix |-> p]

RECURSIVE ParseFrom(_, _)
\* pathToRegExp.parse: PATH_REGEXP scanned left to right; `\c` is the
\* literal c, `/:name` a parameter with prefix "/", `:name` one without
ParseFrom(s, i) ==
  IF i > Len(s) THEN <<>>
  ELSE IF s[i] = "\\" /\ i + 1 <= Len(s)
    THEN <<LitTok(s[i + 1])>> \o ParseFrom(s, i + 2)
  ELSE IF s[i] = "/" /\ i + 2 <= Len(s) /\ s[i + 1] = ":" /\ s[i + 2] \in WordChars
    THEN <<KeyTok(JoinChars(s, i + 2, WordRun(s, i + 2)), "/")>>
         \o ParseFrom(s, WordRun(s, i + 2))
  ELSE IF s[i] = ":" /\ i + 1 <= Len(s) /\ s[i + 1] \in WordChars
    THEN <<KeyTok(JoinChars(s, i + 1, WordRun(s, i + 1)), "")>>
         \o ParseFrom(s, WordRun(s, i + 1))
  ELSE <<LitTok(s[i])>> \o ParseFrom(s, i + 1)

parse(s) == ParseFrom(s, 1)

\* the tokens that are parameters, in template order
KeysOf(toks) == SelectSeq(toks, LAMBDA t : ~t.lit)

\* the compiled matcher: a RegExp literal is passed through; a template
\* becomes its tokens, anchored, with the trailing-slash rule of `strict`
CompileRegexp(p, o) ==
  IF p.re THEN [re |-> TRUE, src |-> p.s, toks |-> <<>>, strict |-> FALSE]
  ELSE [re |-> FALSE, src |-> <<>>, toks |-> parse(p.s), strict |-> o.strict]

\* pathToRegExp(path, keys, opts): returns the matcher and pushes the
\* parameters of the template onto the `keys` array it was handed
pathToRegExp(p, keys, o) ==
  [regexp |-> CompileRegexp(p, o),
   keys |-> IF p.re THEN keys ELSE keys \o KeysOf(parse(p.s))]

----------------------------------------------------------------------------
(* RegExp.prototype.test on the two kinds of matcher.                      *)

\* the tokens the compiled expression is built from: outside strict mode a
\* trailing "/" of the route is dropped before the optional final slash
RouteToks(toks, strict) ==
  IF ~strict /\ Len(toks) > 0 /\ toks[Len(toks)].lit /\ toks[Len(toks)].c = "/"
  THEN SubSeq(toks, 1, Len(toks) - 1)
  ELSE toks

RECURSIVE MatchFrom(_, _, _, _, _)
\* does str[si..] match toks[ti..] followed by the end of the expression:
\* `$` in strict mode, `(?:\/(?=$))?$` otherwise
MatchFrom(toks, strict, str, ti, si) ==
  IF ti > Len(toks)
  THEN \/ si = Len(str) + 1
       \/ ~strict /\ si = Len(str) /\ str[si] = "/"
  ELSE IF toks[ti].lit
  THEN si <= Len(str) /\ str[si] = toks[ti].c
       /\ MatchFrom(toks, strict, str, ti + 1, si + 1)
  ELSE LET b == IF toks[ti].prefix = "" THEN si ELSE si + 1
       IN  /\ toks[ti].prefix = "" \/ (si <= Len(str) /\ str[si] = "/")
           /\ \E e \in b .. Len(str) :
                /\ \A k \in b .. e : str[k] # "/"
                /\ MatchFrom(toks, strict, str, ti + 1, e + 1)

RECURSIVE Unescape(_, _)
\* the literal text of a RegExp source made of characters and `\c` escapes
Unescape(src, i) ==
  IF i > Len(src) THEN <<>>
  ELSE IF src[i] = "\\" /\ i + 1 <= Len(src)
    THEN <<src[i + 1]>> \o Unescape(src, i + 2)
  ELSE <<src[i]>> \o Unescape(src, i + 1)

\* test of a RegExp literal `^text$`, `^text`, `text$` or `text`
MatchLit(src, str) ==
  LET atStart == Len(src) > 0 /\ src[1] = "^"
      atEnd == Len(src) > 0 /\ src[Len(src)] = "$"
                 /\ (Len(src) = 1 \/ src[Len(src) - 1] # "\\")
      body == Unescape(SubSeq(src, IF atStart THEN 2 ELSE 1,
                                   IF atEnd THEN Len(src) - 1 ELSE Len(src)), 1)
      n == Len(body)
  IN  \E b \in 1 .. Len(str) + 1 :
        /\ b + n - 1 <= Len(str)
        /\ SubSeq(str, b, b + n - 1) = body
        /\ atStart => b = 1
        /\ atEnd => b + n - 1 = Len(str)

\* regexp.test(str)
test(r, str) ==
  IF r.re THEN MatchLit(r.src, str)
  ELSE MatchFrom(RouteToks(r.toks, r.strict), r.strict, str, 1, 1)

----------------------------------------------------------------------------
(* Array helpers of the language.                                          *)

RECURSIVE IndexFrom(_, _, _)
IndexFrom(seq, v, i) ==
  IF i > Len(seq) THEN -1
  ELSE IF seq[i] = v THEN i - 1 ELSE IndexFrom(seq, v, i + 1)

\* Array.prototype.indexOf: the 0-based index of the first v, or -1
indexOf(seq, v) == IndexFrom(seq, v, 1)

\* Array.prototype.splice(i, 0, v) with a 0-based i
splice(seq, i, v) == SubSeq(seq, 1, i) \o <<v>> \o SubSeq(seq, i + 1, Len(seq))

\* Array.prototype.map(p => p.name)
NamesOf(keys) == [i \in 1 .. Len(keys) |-> keys[i].name]

----------------------------------------------------------------------------
(* The constructor.                                                        *)

\* String.prototype.toUpperCase on the method names of the model
toUpperCase(m) ==
  CASE m \in {"get", "Get", "GET"} -> "GET"
    [] m \in {"post", "POST"} -> "POST"
    [] m \in {"head", "HEAD"} -> "HEAD"
    [] OTHER -> m

\* a variant that adds one "HEAD" however many "GET" there are
LayerMethodsOnce(ms) ==
  LET up == [i \in 1 .. Len(ms) |-> toUpperCase(ms[i])]
  IN  IF \E i \in 1 .. Len(up) : up[i] = "GET" THEN <<"HEAD">> \o up ELSE up

RECURSIVE MethodsFrom(_, _, _)
\* methods.forEach: push the uppercased name, and unshift "HEAD" when the
\* name just pushed is "GET"
MethodsFrom(ms, i, acc) ==
  IF i > Len(ms) THEN acc
  ELSE LET pushed == Append(acc, toUpperCase(ms[i]))
           l == Len(pushed)
       IN  MethodsFrom(ms, i + 1,
             IF pushed[l] = "GET" THEN <<"HEAD">> \o pushed ELSE pushed)

\* this.methods after the constructor's loop
LayerMethods(ms) == MethodsFrom(ms, 1, <<>>)

\* this.stack = Array.isArray(middleware) ? middleware : [middleware]
LayerStack(mw) == IF mw.arr THEN mw.items ELSE <<mw.items[1]>>

\* the forEach that throws on the first entry whose typeof is not 'function'
StackThrows(stk) == \E i \in 1 .. Len(stk) : stk[i].typ # "function"

\* new Layer(path, methods, middleware, opts)
Construct(p, ms, mw, o) ==
  /\ status = "none"
  /\ IF StackThrows(LayerStack(mw))
     THEN /\ status' = "threw"
          /\ ret' = [op |-> "new", methods |-> ms, middleware |-> mw,
                     error |-> "Error"]
          /\ UNCHANGED <<path, methods, stack, paramNames, regexp, opts,
                         nextId, path0, applied>>
     ELSE /\ status' = "layer"
          /\ opts' = o
          /\ methods' = LayerMethods(ms)
          /\ stack' = LayerStack(mw)
          /\ path' = p
          /\ paramNames' = pathToRegExp(p, <<>>, o).keys
          /\ regexp' = pathToRegExp(p, <<>>, o).regexp
          /\ path0' = p
          /\ ret' = [op |-> "new", methods |-> ms, middleware |-> mw,
                     error |-> "none"]
          /\ UNCHANGED <<nextId, applied>>

----------------------------------------------------------------------------
(* Layer.prototype.match                                                   *)

match(str) ==
  /\ status = "layer"
  /\ ret' = [op |-> "match", arg |-> str, result |-> test(regexp, str)]
  /\ UNCHANGED <<status, layer, nextId, path0, applied>>

----------------------------------------------------------------------------
(* Layer.prototype.param                                                   *)

\* !fn.param: the property is absent, or is the empty string
NoParam(fn) == ~fn.tagged \/ fn.param = ""

RECURSIVE ScanFromNoOrder(_, _, _, _)
\* a variant that stops only at a unit that is not a parameter handler
ScanFromNoOrder(stk, names, x, i) ==
  IF i > Len(stk) THEN -1
  ELSE IF NoParam(stk[i]) THEN i - 1
  ELSE ScanFromNoOrder(stk, names, x, i + 1)

RECURSIVE ScanFrom(_, _, _, _)
\* stack.some(...): the 0-based index of the first unit that is not a
\* parameter handler or whose parameter comes after index x; -1 if none
ScanFrom(stk, names, x, i) ==
  IF i > Len(stk) THEN -1
  ELSE IF NoParam(stk[i]) \/ indexOf(names, stk[i].param) > x THEN i - 1
  ELSE ScanFrom(stk, names, x, i + 1)

\* a variant that does not test whether the name is a parameter
ParamStackNoGuard(stk, keys, name, mw) ==
  LET names == NamesOf(keys)
      x == indexOf(names, name)
      at == ScanFrom(stk, names, x, 1)
  IN  IF at > -1 THEN splice(stk, at, mw) ELSE stk

\* the stack after param(name, fn), mw being the wrapper it builds
ParamStack(stk, keys, name, mw) ==
  LET names == NamesOf(keys)
      x == indexOf(names, name)
      at == ScanFrom(stk, names, x, 1)
  IN  IF x > -1 /\ at > -1 THEN splice(stk, at, mw) ELSE stk

param(name) ==
  /\ status = "layer"
  /\ nextId <= MaxParamCalls
  /\ LET mw == [typ |-> "function", id |-> "p" \o ToString(nextId),
                tagged |-> TRUE, param |-> name]
     IN  stack' = ParamStack(stack, paramNames, name, mw)
  /\ nextId' = nextId + 1
  /\ ret' = [op |-> "param", arg |-> name, result |-> "this"]
  /\ UNCHANGED <<status, path, methods, paramNames, regexp, opts, path0, applied>>

----------------------------------------------------------------------------
(* Layer.prototype.setPrefix                                               *)

\* a variant that hands the old paramNames to the compiler
PrefixedNoReset(p, keys, rx, o, prefix) ==
  IF Truthy(p)
  THEN LET np == Str(prefix \o ToStr(p))
       IN  [path |-> np,
            paramNames |-> pathToRegExp(np, keys, o).keys,
            regexp |-> pathToRegExp(np, keys, o).regexp]
  ELSE [path |-> p, paramNames |-> keys, regexp |-> rx]

\* path, paramNames and regexp after setPrefix(prefix)
Prefixed(p, keys, rx, o, prefix) ==
  IF Truthy(p)
  THEN LET np == Str(prefix \o ToStr(p))
       IN  [path |-> np,
            paramNames |-> pathToRegExp(np, <<>>, o).keys,
            regexp |-> pathToRegExp(np, <<>>, o).regexp]
  ELSE [path |-> p, paramNames |-> keys, regexp |-> rx]

setPrefix(prefix) ==
  /\ status = "layer"
  /\ Len(applied) < MaxPrefixCalls
  /\ LET r == Prefixed(path, paramNames, regexp, opts, prefix)
     IN  /\ path' = r.path
         /\ paramNames' = r.paramNames
         /\ regexp' = r.regexp
  /\ applied' = Append(applied, prefix)
  /\ ret' = [op |-> "setPrefix", arg |-> prefix, result |-> "this"]
  /\ UNCHANGED <<status, methods, stack, opts, nextId, path0>>

----------------------------------------------------------------------------
Init ==
  /\ status = "none"
  /\ path = Str(<<>>)
  /\ methods = <<>>
  /\ stack = <<>>
  /\ paramNames = <<>>
  /\ regexp = CompileRegexp(Str(<<>>), [strict |-> FALSE])
  /\ opts = [strict |-> FALSE]
  /\ nextId = 1
  /\ path0 = Str(<<>>)
  /\ applied = <<>>
  /\ ret = [op |-> "none"]

----------------------------------------------------------------------------
(* decodeURIComponent and safeDecodeURIComponent                           *)

HexDigits ==
  <<"0", "1", "2", "3", "4", "5", "6", "7", "8", "9", "A", "B", "C", "D", "E", "F">>

\* the value of a hexadecimal digit, -1 for any other character
HexVal(c) ==
  CASE c = "a" -> 10 [] c = "b" -> 11 [] c = "c" -> 12
    [] c = "d" -> 13 [] c = "e" -> 14 [] c = "f" -> 15
    [] OTHER -> indexOf(HexDigits, c)

\* the byte written "%XY" at s[i..i+2], -1 when that is not an escape
ByteAt(s, i) ==
  IF i + 2 <= Len(s) /\ s[i] = "%" /\ HexVal(s[i + 1]) >= 0 /\ HexVal(s[i + 2]) >= 0
  THEN 16 * HexVal(s[i + 1]) + HexVal(s[i + 2])
  ELSE -1

\* the character of a code point: the characters the model writes stand for
\* themselves, any other code point is written U+<decimal>
CharOf(cp) ==
  CASE cp = 32 -> " " [] cp = 37 -> "%" [] cp = 47 -> "/" [] cp = 58 -> ":"
    [] cp = 97 -> "a" [] cp = 98 -> "b" [] cp = 120 -> "x"
    [] cp = 49 -> "1" [] cp = 50 -> "2" [] cp = 65 -> "A"
    [] OTHER -> "U+" \o ToString(cp)

\* the number of bytes of the UTF-8 sequence a lead byte opens, 0 if none
SeqLen(b) ==
  IF b < 128 THEN 1
  ELSE IF b >= 194 /\ b <= 223 THEN 2
  ELSE IF b >= 224 /\ b <= 239 THEN 3
  ELSE IF b >= 240 /\ b <= 244 THEN 4
  ELSE 0

\* the code point of the escaped UTF-8 sequence of n bytes at s[i..],
\* -1 when a continuation byte is missing or the sequence is not UTF-8
CodePointAt(s, i, n) ==
  LET b(k) == ByteAt(s, i + 3 * k)
      cont(k) == b(k) >= 128 /\ b(k) <= 191
      low(k) == b(k) % 64
  IN  IF n = 1 THEN b(0)
      ELSE IF n = 2 THEN
        IF cont(1) THEN (b(0) % 32) * 64 + low(1) ELSE -1
      ELSE IF n = 3 THEN
        IF cont(1) /\ cont(2)
           /\ (b(0) = 224 => b(1) >= 160) /\ (b(0) = 237 => b(1) <= 159)
        THEN (b(0) % 16) * 4096 + low(1) * 64 + low(2) ELSE -1
      ELSE
        IF cont(1) /\ cont(2) /\ cont(3)
           /\ (b(0) = 240 => b(1) >= 144) /\ (b(0) = 244 => b(1) <= 143)
        THEN (b(0) % 8) * 262144 + low(1) * 4096 + low(2) * 64 + low(3) ELSE -1

RECURSIVE DecodeFrom(_, _)
\* decodeURIComponent from position i: [ok, s]; ok is FALSE where the
\* built-in throws URIError
DecodeFrom(s, i) ==
  IF i > Len(s) THEN [ok |-> TRUE, s |-> <<>>]
  ELSE IF s[i] # "%"
    THEN LET r == DecodeFrom(s, i + 1)
         IN  [ok |-> r.ok, s |-> <<s[i]>> \o r.s]
  ELSE LET b == ByteAt(s, i)
           n == IF b < 0 THEN 0 ELSE SeqLen(b)
           cp == IF n = 0 THEN -1 ELSE CodePointAt(s, i, n)
       IN  IF cp < 0 THEN [ok |-> FALSE, s |-> <<>>]
           ELSE LET r == DecodeFrom(s, i + 3 * n)
                IN  [ok |-> r.ok, s |-> <<CharOf(cp)>> \o r.s]

decodeURIComponent(s) == DecodeFrom(s, 1)

\* try { return decodeURIComponent(text) } catch (e) { return text }
safeDecodeURIComponent(text) ==
  IF decodeURIComponent(text).ok THEN decodeURIComponent(text).s ELSE text

----------------------------------------------------------------------------
(* Layer.prototype.params                                                  *)

\* a capture: a string, or undefined (a group that took no part)
Cap(s) == [def |-> TRUE, s |-> s]
NoCap == [def |-> FALSE, s |-> <<>>]

\* c ? safeDecodeURIComponent(c) : c
CapValue(c) ==
  IF c.def /\ Len(c.s) > 0 THEN Cap(safeDecodeURIComponent(c.s)) ELSE c

\* params[name] = v on a mapping held as a function
Put(m, name, v) ==
  [k \in DOMAIN m \cup {name} |-> IF k = name THEN v ELSE m[k]]

RECURSIVE ParamsFromKeys(_, _, _, _)
\* a variant whose loop runs over the indexes of the descriptors
ParamsFromKeys(keys, captures, m, i) ==
  IF i > Len(keys) THEN m
  ELSE ParamsFromKeys(keys, captures,
         Put(m, keys[i].name,
             IF i <= Len(captures) THEN CapValue(captures[i]) ELSE NoCap),
         i + 1)

RECURSIVE ParamsFrom(_, _, _, _)
\* the loop over the indexes of `captures`, from the 1-based index i
ParamsFrom(keys, captures, m, i) ==
  IF i > Len(captures) THEN m
  ELSE ParamsFrom(keys, captures,
         IF i <= Len(keys) THEN Put(m, keys[i].name, CapValue(captures[i])) ELSE m,
         i + 1)

\* the mapping params(path, captures, existingParams) returns; `existing`
\* is [given, m], and an absent existingParams starts from {}
ParamsResult(keys, captures, existing) ==
  ParamsFrom(keys, captures, IF existing.given THEN existing.m ELSE << >>, 1)

params(str, captures, existing) ==
  /\ status = "layer"
  /\ ret' = [op |-> "params", captures |-> captures, existing |-> existing,
             result |-> ParamsResult(paramNames, captures, existing)]
  /\ UNCHANGED <<status, layer, nextId, path0, applied>>

----------------------------------------------------------------------------
(* Layer.prototype.url                                                     *)

\* the arguments of url: undefined, a string, a plain object (its
\* properties `props`, and its `query` property when `hasq`), an Array
Undef == [t |-> "undefined", s |-> <<>>, items |-> <<>>, props |-> << >>,
          hasq |-> FALSE, query |-> <<>>]
S(s) == [Undef EXCEPT !.t = "string", !.s = s]
Obj(props) == [Undef EXCEPT !.t = "object", !.props = props]
Arr(items) == [Undef EXCEPT !.t = "array", !.items = items]
WithQuery(o, q) == [o EXCEPT !.hasq = TRUE, !.query = q]

\* typeof v: an Array is an object too
typeof(v) == IF v.t = "array" THEN "object" ELSE v.t

RECURSIVE StripFrom(_, _)
\* path.replace(/\(\.\*\)/g, ''): every "(.*)" is removed
StripFrom(s, i) ==
  IF i > Len(s) THEN <<>>
  ELSE IF i + 3 <= Len(s) /\ SubSeq(s, i, i + 3) = <<"(", ".", "*", ")">>
    THEN StripFrom(s, i + 4)
  ELSE <<s[i]>> \o StripFrom(s, i + 1)

\* encodeURIComponent of one character of the model
EncodeChar(c) ==
  CASE c = " " -> <<"%", "2", "0">>
    [] c = "/" -> <<"%", "2", "F">>
    [] c = "%" -> <<"%", "2", "5">>
    [] c = ":" -> <<"%", "3", "A">>
    [] OTHER -> <<c>>

RECURSIVE encodeURIComponent(_)
encodeURIComponent(s) ==
  IF Len(s) = 0 THEN <<>> ELSE EncodeChar(Head(s)) \o encodeURIComponent(Tail(s))

RECURSIVE ZipFrom(_, _, _, _, _)
\* the positional loop: the j-th value (0-based) goes to the next token
\* that has a name; a value past the end of args is undefined
ZipFrom(toks, args, i, j, replace) ==
  IF i > Len(toks) THEN replace
  ELSE IF ~toks[i].lit /\ toks[i].name # ""
    THEN ZipFrom(toks, args, i + 1, j + 1,
           Put(replace, toks[i].name,
               IF j + 1 <= Len(args) THEN args[j + 1] ELSE Undef))
  ELSE ZipFrom(toks, args, i + 1, j, replace)

RECURSIVE BuildFrom(_, _, _)
\* toPath(data) of pathToRegExp.compile: [ok, s]; ok is FALSE where it
\* throws TypeError: a parameter without a defined value, or whose encoded
\* value does not match the parameter's pattern (here: is empty)
BuildFrom(toks, data, i) ==
  IF i > Len(toks) THEN [ok |-> TRUE, s |-> <<>>]
  ELSE LET r == BuildFrom(toks, data, i + 1)
       IN  IF toks[i].lit THEN [ok |-> r.ok, s |-> <<toks[i].c>> \o r.s]
           ELSE IF toks[i].name \notin DOMAIN data
                   \/ data[toks[i].name].t # "string"
                   \/ Len(data[toks[i].name].s) = 0
             THEN [ok |-> FALSE, s |-> <<>>]
           ELSE [ok |-> r.ok,
                 s |-> (IF toks[i].prefix = "" THEN <<>> ELSE <<toks[i].prefix>>)
                       \o encodeURIComponent(data[toks[i].name].s) \o r.s]

\* URI.encodeQuery: encodeURIComponent, then every "%20" becomes "+"
RECURSIVE encodeQuery(_)
encodeQuery(s) ==
  IF Len(s) = 0 THEN <<>>
  ELSE (IF Head(s) = " " THEN <<"+">> ELSE EncodeChar(Head(s))) \o encodeQuery(Tail(s))

RECURSIVE buildQuery(_)
\* URI.buildQuery on a list of <<key, value>> properties: k=v joined by "&"
buildQuery(q) ==
  IF Len(q) = 0 THEN <<>>
  ELSE encodeQuery(q[1][1]) \o <<"=">> \o encodeQuery(q[1][2])
       \o (IF Len(q) > 1 THEN <<"&">> \o buildQuery(Tail(q)) ELSE <<>>)

\* new uri(replaced).search(query).toString(): the query follows "?" when
\* it is not empty
withSearch(replaced, q) ==
  IF Len(buildQuery(q)) > 0 THEN replaced \o <<"?">> \o buildQuery(q) ELSE replaced

\* the value url(...arguments) returns: [threw, built, result]; a RegExp
\* path has no `replace` method, so the first statement throws TypeError
UrlResult(p, arguments) ==
  IF p.re THEN [threw |-> TRUE, built |-> <<>>, result |-> <<>>]
  ELSE
  LET param1 == IF Len(arguments) >= 1 THEN arguments[1] ELSE Undef
      option2 == IF Len(arguments) >= 2 THEN arguments[2] ELSE Undef
      url == StripFrom(p.s, 1)
      spread == typeof(param1) # "object"
      last == IF Len(arguments) > 0 THEN arguments[Len(arguments)] ELSE Undef
      trailing == spread /\ typeof(last) = "object"
      \* args when it is an Array
      args == IF spread
              THEN (IF trailing THEN SubSeq(arguments, 1, Len(arguments) - 1)
                    ELSE arguments)
              ELSE param1.items
      isArray == spread \/ param1.t = "array"
      tokens == parse(url)
      named == \E i \in 1 .. Len(tokens) : ~tokens[i].lit /\ tokens[i].name # ""
      replace == IF isArray THEN ZipFrom(tokens, args, 1, 0, << >>)
                 ELSE IF named THEN param1.props
                 ELSE << >>
      options == IF isArray THEN (IF trailing THEN last ELSE option2)
                 ELSE IF named THEN option2
                 ELSE param1
      replaced == BuildFrom(tokens, replace, 1)
  IN  IF ~replaced.ok THEN [threw |-> TRUE, built |-> <<>>, result |-> <<>>]
      ELSE [threw |-> FALSE, built |-> replaced.s,
            result |-> IF options.t # "undefined" /\ options.hasq
                       THEN withSearch(replaced.s, options.query)
                       ELSE replaced.s]

url(arguments) ==
  /\ status = "layer"
  /\ ret' = [op |-> "url", arguments |-> arguments,
             result |-> UrlResult(path, arguments)]
  /\ UNCHANGED <<status, layer, nextId, path0, applied>>

----------------------------------------------------------------------------
(* Inputs.                                                                 *)

\* path arguments: "", "/", "/x", "/:a", "/:a/:b" and the literal /^\/x$/
Paths ==
  { Str(<<>>), Str(<<"/">>), Str(<<"/", "x">>), Str(<<"/", ":", "a">>),
    Str(<<"/", ":", "a", "/", ":", "b">>),
    RegExpLit(<<"^", "\\", "/", "x", "$">>) }

\* method lists
MethodLists ==
  { <<>>, <<"get">>, <<"post">>, <<"GET", "post">>, <<"post", "Get">>,
    <<"get", "get">>, <<"head", "get">> }

\* middleware arguments: one function, lists of functions (the empty list
\* among them), and values that hold something that is not a function
Middlewares ==
  { Single(Fn("h1")), ArrayOf(<<Fn("h1")>>), ArrayOf(<<Fn("h1"), Fn("h2")>>),
    ArrayOf(<<>>), Single(NotFn("undefined")), Single(NotFn("string")),
    ArrayOf(<<Fn("h1"), NotFn("object")>>) }

Options == { [strict |-> FALSE], [strict |-> TRUE] }

\* names given to param: "a" and "b" occur in templates, "z" in none
ParamArgs == { "a", "b", "z" }

\* prefixes: "/", "/x", "/:b"
Prefixes == { <<"/">>, <<"/", "x">>, <<"/", ":", "b">> }

\* request paths given to match
Requests ==
  { <<"/">>, <<"/", "x">>, <<"/", "x", "/", "x">>, <<"/", "a", "/", "b">> }

\* capture lists given to params; "%E0%A4%A" is malformed, "%E0%A4%85"
\* is one well-formed three-byte character
Captures ==
  { <<>>,
    <<Cap(<<"x">>)>>,
    <<Cap(<<"a", "%", "2", "F", "b">>), Cap(<<"%", "2", "0">>)>>,
    <<Cap(<<"%", "E", "0", "%", "A", "4", "%", "A">>), NoCap>>,
    <<Cap(<<>>), Cap(<<"%", "E", "0", "%", "A", "4", "%", "8", "5">>)>>,
    <<Cap(<<"1">>), Cap(<<"2">>), Cap(<<"%">>)>>,
    <<NoCap, Cap(<<"x">>), Cap(<<"%", "4", "1">>), Cap(<<"1">>)>> }

\* existingParams: absent, empty, or holding earlier values
Existing ==
  { [given |-> FALSE, m |-> << >>],
    [given |-> TRUE, m |-> << >>],
    [given |-> TRUE, m |-> [k \in {"a", "q"} |-> Cap(<<"1">>)]],
    [given |-> TRUE, m |-> [k \in {"b"} |-> Cap(<<"2">>)]] }

\* the query {q: "a b"} and the object {query: {q: "a b"}}
AQuery == << <<<<"q">>, <<"a", " ", "b">>>> >>
QueryOpt == WithQuery(Obj(<< >>), AQuery)

\* argument lists given to url
UrlArgs ==
  { <<>>,
    <<Obj(<< >>)>>,
    <<Obj([k \in {"a"} |-> S(<<"1">>)])>>,
    <<Obj([k \in {"a", "b"} |-> S(<<"a", "/", "b">>)]), QueryOpt>>,
    <<Obj(<< >>), QueryOpt>>,
    <<Obj(<< >>), Obj(<< >>)>>,
    <<QueryOpt>>,
    <<S(<<"1">>)>>,
    <<S(<<"1">>), S(<<"2">>), QueryOpt>>,
    <<S(<<"1">>), S(<<"x">>), S(<<"2">>)>>,
    <<Arr(<<S(<<"1">>), S(<<"2">>), S(<<"x">>)>>), QueryOpt>>,
    <<Undef, QueryOpt>> }

\* the method list of the Layers whose later life is explored
SomeMethods == <<"get", "post">>

----------------------------------------------------------------------------
(* Specifications.                                                         *)

New == \E p \in Paths, ms \in MethodLists, mw \in Middlewares, o \in Options :
         Construct(p, ms, mw, o)

NewSome == \E p \in Paths, mw \in Middlewares, o \in Options :
             Construct(p, SomeMethods, mw, o)

\* a route with a non-empty path and one handler
NewRoute == \E p \in Paths \ {Str(<<>>)}, o \in Options :
              Construct(p, SomeMethods, Single(Fn("h1")), o)

DoMatch == \E s \in Requests : match(s)

DoParams == \E c \in Captures, e \in Existing : params(<<>>, c, e)

DoUrl == \E a \in UrlArgs : url(a)

DoParam == \E n \in ParamArgs : param(n)

DoSetPrefix == \E pre \in Prefixes : setPrefix(pre)

\* every operation, on every input of the model
Next == New \/ DoMatch \/ DoParams \/ DoUrl \/ DoParam \/ DoSetPrefix

Spec == Init /\ [][Next]_vars

\* construction alone, on every input
NextNew == New

SpecNew == Init /\ [][NextNew]_vars

\* the handler stack and the template: param, setPrefix and match
NextLayer == NewSome \/ DoParam \/ DoSetPrefix \/ DoMatch

SpecLayer == Init /\ [][NextLayer]_vars

\* URL generation from routes, prefixed or not
NextUrl == NewRoute \/ DoSetPrefix \/ DoUrl

SpecUrl == Init /\ [][NextUrl]_vars

\* parameter extraction from routes, prefixed or not
NextParams == NewRoute \/ DoSetPrefix \/ DoParams

SpecParams == Init /\ [][NextParams]_vars

----------------------------------------------------------------------------
(* Properties of the handler stack.                                        *)

\* the descriptor index of the name a parameter handler is tagged with
DescIndex(u) == indexOf(NamesOf(paramNames), u.param)

\* parameter handlers are in non-decreasing descriptor-index order
ParamsAscending ==
  \A i, j \in 1 .. Len(stack) :
    (i < j /\ stack[i].tagged /\ stack[j].tagged)
      => DescIndex(stack[i]) <= DescIndex(stack[j])

\* every parameter handler precedes every plain handler
ParamsFirst ==
  \A i, j \in 1 .. Len(stack) :
    (stack[i].tagged /\ ~stack[j].tagged) => i < j

\* C1: on a freshly constructed Layer, after any sequence of param calls
\* and no setPrefix, the parameter handlers are in ascending descriptor
\* order whatever the order of the calls, and precede every plain handler.
C1_ParamOrderFresh ==
  (status = "layer" /\ applied = <<>>) => (ParamsAscending /\ ParamsFirst)

\* param("b") then param("a") on "/:a/:b": the later handler stands first
C1_Witness ==
  /\ status = "layer" /\ applied = <<>>
  /\ NamesOf(paramNames) = <<"a", "b">>
  /\ Len(stack) = 4
  /\ stack[1].param = "a" /\ stack[1].id = "p2"
  /\ stack[2].param = "b" /\ stack[2].id = "p1"
  /\ ~stack[3].tagged /\ ~stack[4].tagged

\* C2: in every state reached by any interleaving of param and setPrefix,
\* the parameter handlers are in ascending order of the index of their
\* name in the current paramNames and precede every plain handler.
C2_ParamOrderAlways ==
  status = "layer" => (ParamsAscending /\ ParamsFirst)

\* C7: param with a name that is not among the descriptor names changes
\* nothing of the Layer and returns the Layer without an error.
C7_AbsentNameNoOp ==
  [][ (status = "layer" /\ ret'.op = "param"
         /\ indexOf(NamesOf(paramNames), ret'.arg) = -1)
      => (layer' = layer /\ status' = status /\ ret'.result = "this") ]_vars

\* param("b") was called on a Layer whose only parameter is "a"
C7_Witness ==
  /\ status = "layer" /\ ret.op = "param" /\ ret.arg = "b"
  /\ NamesOf(paramNames) = <<"a">>
  /\ nextId = 3
  /\ Len(stack) = 3 /\ stack[1].param = "a"

\* the position the claim gives the new unit: before the first unit that
\* is plain or tagged with a later parameter, the end of the stack if none
ClaimedAt(stk, names, x) ==
  IF ScanFrom(stk, names, x, 1) > -1 THEN ScanFrom(stk, names, x, 1) ELSE Len(stk)

\* C9: param with a name at descriptor index x lengthens the stack by one
\* unit tagged with the name, placed before the first unit that is plain
\* or tagged with a parameter of greater index, or at the end of the stack
\* when there is no such unit; the other units keep their order.
C9_InsertOrAppend ==
  [][ (status = "layer" /\ ret'.op = "param"
         /\ indexOf(NamesOf(paramNames), ret'.arg) > -1)
      => LET names == NamesOf(paramNames)
             at == ClaimedAt(stack, names, indexOf(names, ret'.arg))
         IN  /\ Len(stack') = Len(stack) + 1
             /\ stack'[at + 1].tagged /\ stack'[at + 1].param = ret'.arg
             /\ SubSeq(stack', 1, at) = SubSeq(stack, 1, at)
             /\ SubSeq(stack', at + 2, Len(stack')) = SubSeq(stack, at + 1, Len(stack))
    ]_vars

----------------------------------------------------------------------------
(* Properties of the template, its descriptors and its matcher.            *)

RECURSIVE PrefixText(_)
\* the text the prefixes applied so far put before the template: the last
\* prefix applied stands first
PrefixText(ps) ==
  IF Len(ps) = 0 THEN <<>> ELSE ps[Len(ps)] \o PrefixText(SubSeq(ps, 1, Len(ps) - 1))

\* paramNames and regexp are what the compiler gives for path and opts
InSync ==
  status = "layer" =>
    /\ paramNames = pathToRegExp(path, <<>>, opts).keys
    /\ regexp = pathToRegExp(path, <<>>, opts).regexp

\* a Layer built on a non-empty template holds the prefixes, then the template
PathIsPrefixed ==
  (status = "layer" /\ ~path0.re /\ Len(path0.s) > 0)
    => path = Str(PrefixText(applied) \o path0.s)

\* a step of setPrefix on a Layer whose path is a non-empty template
PrefixStep ==
  status = "layer" /\ ret'.op = "setPrefix" /\ ~path.re /\ Len(path.s) > 0

\* text without parameter tokens or escapes: every character is a literal
PlainText(s) == parse(s) = [i \in 1 .. Len(s) |-> LitTok(s[i])]

AllSlashes(s) == \A i \in 1 .. Len(s) : s[i] = "/"

\* C4: paramNames and regexp are always those compiled from the current
\* path and opts; setPrefix(p) on a non-empty template t sets path to p
\* followed by t, so that prefixes p1 then p2 give p2+p1+t; after it the
\* old template is no longer matched and the prefixed one is.
C4_PrefixRecompiles ==
  /\ [](InSync /\ PathIsPrefixed)
  /\ [][ PrefixStep
         => /\ path' = Str(ret'.arg \o path.s)
            /\ test(regexp', path'.s)
            /\ ~test(regexp', path.s) ]_vars

\* C4 as amended: the statement about matching is made of a non-empty
\* prefix and of plain text, and the old text stays matched when strict is
\* off, the prefix is "/" and the template holds nothing but "/".
C4_PrefixRecompilesPlain ==
  /\ [](InSync /\ PathIsPrefixed)
  /\ [][ PrefixStep
         => /\ path' = Str(ret'.arg \o path.s)
            /\ (Len(ret'.arg) > 0 /\ PlainText(path'.s))
                 => /\ test(regexp', path'.s)
                    /\ \/ ~test(regexp', path.s)
                       \/ ~opts.strict /\ ret'.arg = <<"/">> /\ AllSlashes(path.s)
       ]_vars

\* "/:a/:b" was prefixed with "/x" and then with "/:b": three descriptors,
\* none left over from the earlier paths
C4_Witness ==
  /\ status = "layer" /\ ret.op = "setPrefix"
  /\ applied = << <<"/", "x">>, <<"/", ":", "b">> >>
  /\ path = Str(<<"/", ":", "b", "/", "x", "/", ":", "a", "/", ":", "b">>)
  /\ NamesOf(paramNames) = <<"b", "a", "b">>
  /\ test(regexp, <<"/", "x", "/", "x", "/", "a", "/", "b">>)

\* C10: setPrefix leaves stack and methods alone and returns the Layer;
\* when the path is empty or is a RegExp it also leaves path, regexp and
\* paramNames alone, and match answers as before.
C10_PrefixNoTemplate ==
  [][ (status = "layer" /\ ret'.op = "setPrefix")
      => /\ stack' = stack /\ methods' = methods /\ ret'.result = "this"
         /\ (path.re \/ Len(path.s) = 0)
              => /\ path' = path /\ regexp' = regexp /\ paramNames' = paramNames
                 /\ \A s \in Requests : test(regexp', s) = test(regexp, s)
    ]_vars

----------------------------------------------------------------------------
(* Properties of construction.                                             *)

C6_StackNonEmptyCallable ==
  status = "layer" =>
    /\ Len(stack) >= 1
    /\ \A i \in 1 .. Len(stack) : stack[i].typ = "function"

----------------------------------------------------------------------------
(* Properties of url.                                                      *)

\* the options a call of url carries: the second argument after an object
\* or Array first argument, the trailing object after positional values,
\* and the object itself when it is given alone to a template without
\* parameters
OptionsArg(p, arguments) ==
  LET n == Len(arguments)
  IN  IF n = 0 THEN Undef
      ELSE IF typeof(arguments[1]) = "object"
        THEN IF n >= 2 THEN arguments[2]
             ELSE IF arguments[1].t = "object" /\ KeysOf(parse(p.s)) = <<>>
               THEN arguments[1]
             ELSE Undef
      ELSE IF typeof(arguments[n]) = "object" THEN arguments[n]
      ELSE Undef

\* C3: in every calling shape, when the options carry a query the string
\* returned is the built path followed by "?" and the serialized query;
\* without a query it is the built path.
C3_QueryAppended ==
  (status = "layer" /\ ret.op = "url" /\ ~ret.result.threw) =>
    LET o == OptionsArg(path, ret.arguments)
    IN  ret.result.result =
          IF o.hasq THEN ret.result.built \o <<"?">> \o buildQuery(o.query)
          ELSE ret.result.built

----------------------------------------------------------------------------
(* Properties of params.                                                   *)

\* the value the claim gives a capture: decoded when non-empty and well
\* formed, itself when malformed, empty or undefined
Decoded(c) ==
  IF c.def /\ Len(c.s) > 0 /\ decodeURIComponent(c.s).ok
  THEN Cap(decodeURIComponent(c.s).s)
  ELSE c

\* captures[i], undefined past the end
CaptureAt(captures, i) == IF i <= Len(captures) THEN captures[i] ELSE NoCap

\* m[k], undefined when m has no k
Lookup(m, k) == IF k \in DOMAIN m THEN m[k] ELSE NoCap

ParamsCall == status = "layer" /\ ret.op = "params"

ExistingOf(r) == IF r.existing.given THEN r.existing.m ELSE << >>

\* C8: params returns existingParams overridden at the descriptor names:
\* for every index i that has a descriptor, its name maps to captures[i]
\* decoded (or unchanged if malformed, empty or undefined); every other
\* entry of existingParams is preserved.
C8_ParamsByDescriptor ==
  ParamsCall =>
    LET names == NamesOf(paramNames)
        res == ret.result
        old == ExistingOf(ret)
    IN  /\ \A i \in 1 .. Len(names) :
             Lookup(res, names[i]) = Decoded(CaptureAt(ret.captures, i))
        /\ \A k \in DOMAIN old :
             (\A i \in 1 .. Len(names) : names[i] # k) => Lookup(res, k) = old[k]

\* C8 as amended: only the descriptors at indexes below the number of
\* captures count, and of several with one name the last one wins; every
\* other entry of existingParams is preserved, and nothing else is added.
C8_ParamsByCapture ==
  ParamsCall =>
    LET names == NamesOf(paramNames)
        res == ret.result
        old == ExistingOf(ret)
        n == IF Len(names) < Len(ret.captures) THEN Len(names) ELSE Len(ret.captures)
        last(k) == CHOOSE i \in 1 .. n :
                     names[i] = k /\ \A j \in i + 1 .. n : names[j] # k
        set == {names[i] : i \in 1 .. n}
    IN  /\ DOMAIN res = DOMAIN old \cup set
        /\ \A k \in set : res[k] = Decoded(ret.captures[last(k)])
        /\ \A k \in DOMAIN old \ set : res[k] = old[k]

\* "/:a/:b" prefixed with "/:b", two captures of which the first is
\* malformed, and earlier values for "a" and "q"
C8_Witness ==
  /\ ParamsCall
  /\ NamesOf(paramNames) = <<"b", "a", "b">>
  /\ ret.captures = <<Cap(<<"%", "E", "0", "%", "A", "4", "%", "A">>), NoCap>>
  /\ "q" \in DOMAIN ExistingOf(ret)
  /\ ret.result["b"] = Cap(<<"%", "E", "0", "%", "A", "4", "%", "A">>)
  /\ ret.result["a"] = NoCap
  /\ ret.result["q"] = Cap(<<"1">>)
====
